---- MODULE Spec2Model ----
(***************************************************************************)
(* Conversation state of ChatBot (chatbot.py) driven by the interactive    *)
(* loop run_chat_loop (cli.py).  Strings are sequences of one-character    *)
(* strings; the fixed texts of the system prompt are single chunks.        *)
(***************************************************************************)
EXTENDS Integers, Sequences, FiniteSets, TLC

\* ------------------------------------------------------------------ bounds
\* number of get_response calls explored in one session
MaxCalls == 3
\* largest max_exchanges a session is constructed with
MaxMaxExchanges == 2
\* longest context string given to set_user_profile in SpecProfile
MaxCtxLen == 3

\* ------------------------------------------------------------ python strings
\* characters str.strip() removes
Whitespace == {" ", "\t"}

\* str.lower() on one character (the letters the inputs use)
LowerChar(c) ==
    CASE c = "Q" -> "q"
      [] c = "U" -> "u"
      [] c = "I" -> "i"
      [] c = "T" -> "t"
      [] OTHER -> c

\* str.lower()
Lower(s) == [i \in 1..Len(s) |-> LowerChar(s[i])]

RECURSIVE LStrip(_)
\* str.lstrip()
LStrip(s) ==
    IF s # <<>> /\ Head(s) \in Whitespace THEN LStrip(Tail(s)) ELSE s

RECURSIVE RStrip(_)
\* str.rstrip()
RStrip(s) ==
    IF s # <<>> /\ s[Len(s)] \in Whitespace
    THEN RStrip(SubSeq(s, 1, Len(s) - 1))
    ELSE s

\* str.strip()
Strip(s) == RStrip(LStrip(s))

RECURSIVE SplitAcc(_, _, _)
\* str.split(sep): pieces of s between occurrences of sep, empty pieces kept
SplitAcc(s, sep, cur) ==
    IF s = <<>> THEN <<cur>>
    ELSE IF Head(s) = sep THEN <<cur>> \o SplitAcc(Tail(s), sep, <<>>)
    ELSE SplitAcc(Tail(s), sep, Append(cur, Head(s)))

Split(s, sep) == SplitAcc(s, sep, <<>>)

RECURSIVE Join(_, _)
\* sep.join(items)
Join(sep, items) ==
    IF items = <<>> THEN <<>>
    ELSE IF Len(items) = 1 THEN items[1]
    ELSE items[1] \o sep \o Join(sep, Tail(items))

RECURSIVE SelectStripped(_)
\* [item.strip() for item in pieces if item.strip()]
SelectStripped(pieces) ==
    IF pieces = <<>> THEN <<>>
    ELSE IF Strip(Head(pieces)) # <<>>
         THEN <<Strip(Head(pieces))>> \o SelectStripped(Tail(pieces))
         ELSE SelectStripped(Tail(pieces))

\* slip: the slice off by one, keeping n + 1 elements
SliceLastMutant(lst, n) ==
    IF n = 0 \/ n + 1 >= Len(lst) THEN lst
    ELSE SubSeq(lst, Len(lst) - n, Len(lst))

\* list[-n:] of Python: the last n elements, and the WHOLE list when n = 0
\* (the slice start -0 is 0)
SliceLast(lst, n) ==
    IF n = 0 \/ n >= Len(lst) THEN lst
    ELSE SubSeq(lst, Len(lst) - n + 1, Len(lst))

\* slip: the oldest element dropped instead of the newest
DropLastMutant(lst) ==
    IF lst = <<>> THEN <<>> ELSE Tail(lst)

\* list[:-1] of Python: all but the last element (empty stays empty)
DropLast(lst) ==
    IF lst = <<>> THEN <<>> ELSE SubSeq(lst, 1, Len(lst) - 1)

\* ------------------------------------------------------------------ inputs
CharQ == <<"q">>
CharQuitUpper == <<"Q", "U", "I", "T">>
HistoryCommand == <<"/", "h", "i", "s", "t", "o", "r", "y">>

\* lines input() hands to run_chat_loop
Lines ==
    { <<>>,                              \* empty line
      <<" ", "\t">>,                     \* whitespace only
      CharQ,                             \* q
      CharQuitUpper,                     \* QUIT
      <<" ">> \o HistoryCommand,         \* " /history"
      <<"h", "i">>,                      \* hi
      <<" ", "q">> }                     \* " q": not a quit command

\* names given to set_user_profile
Names == { <<"A", "n", "a">> }

\* context strings given to set_user_profile
ContextStrings == { <<" ", ",">>, <<"x", ",", " ", "y", " ">> }

\* characters of the context strings of SpecProfile
CtxAlphabet == {"x", " ", ","}

\* a context string with a padded piece, a blank piece and a duplicate
ExampleContext == <<"x", ",", " ", ",", "x", " ">>

\* every context string of at most MaxCtxLen characters, and the example
BoundedContextStrings ==
    UNION { [1..k -> CtxAlphabet] : k \in 0..MaxCtxLen } \cup {ExampleContext}

\* names given to set_user_profile in SpecProfile
ProfileNames == { <<>>, <<" ", "A">> }

\* texts the completion endpoint answers with
Answers == { <<"o", "k">> }

\* str(e) of the exceptions the completion call raises
Errors == { <<"r", "e", "f", "u", "s", "e", "d">> }

\* ------------------------------------------------------------------- state
VARIABLES
    model,             \* ChatBot.model
    max_exchanges,     \* ChatBot.max_exchanges
    user_profile,      \* ChatBot.user_profile
    history,           \* ChatBot.history
    pc,                \* where run_chat_loop stands
    user_text,         \* run_chat_loop: the line input() returned last
    messages_to_send,  \* get_response: the list handed to the endpoint last
    output,            \* what run_chat_loop printed last
    calls,             \* number of completion calls made
    profile_args,      \* the arguments of the last set_user_profile call
    pre_history,       \* history at entry of the last get_response
    exchanges_so_far,  \* number of completion calls that returned
    only_successes,    \* no failure, clear or interrupt happened so far
    after_clear,       \* no get_response finished since the last clear_history
    last_op            \* the operation performed last

vars == <<model, max_exchanges, user_profile, history, pc, user_text,
          messages_to_send, output, calls, profile_args, pre_history,
          exchanges_so_far, only_successes, after_clear, last_op>>

\* ChatBot fields
bot == <<model, max_exchanges, user_profile, history>>

\* bookkeeping of the observer
ghost == <<pre_history, exchanges_so_far, only_successes, after_clear>>

\* the empty dict {}
EmptyProfile == [k \in {} |-> <<>>]

NoOutput == [kind |-> "none", text |-> <<>>]

\* slip: the user input stored under the role of the system turn
UserTurnMutant(content) == [role |-> "system", content |-> content]

\* {"role": "user", "content": user_input}
UserTurn(content) == [role |-> "user", content |-> content]

\* slip: the answer stored under the role of the user
AssistantTurnMutant(content) == [role |-> "user", content |-> content]

\* {"role": "assistant", "content": answer}
AssistantTurn(content) == [role |-> "assistant", content |-> content]

\* ------------------------------------------------------------ ChatBot methods
\* slip: the pieces tested with "if item" instead of "if item.strip()"
ParseProfileMutant(name, context_info_str) ==
    [name |-> name,
     context_items |->
        LET pieces == Split(context_info_str, ",")
            kept == SelectSeq(pieces, LAMBDA item : item # <<>>)
        IN [i \in 1..Len(kept) |-> Strip(kept[i])]]

\* the profile set_user_profile stores
ParseProfile(name, context_info_str) ==
    [name |-> name,
     context_items |-> SelectStripped(Split(context_info_str, ","))]

\* _create_system_prompt; the fixed texts are the chunks
\*   GENERIC  "Ты — полезный ассистент."
\*   HEAD     "Ты — ассистент. Веди диалог, ... Имя: "
\*   MID      ". Ключевая информация о нем (интересы, факты): "
\*   TAIL     ". Всегда обращайся к пользователю по имени. ..."
\*   NOCTX    "не указана"
CreateSystemPrompt(profile) ==
    IF DOMAIN profile = {}
    THEN [role |-> "system", content |-> <<"GENERIC">>]
    ELSE LET context_str ==
                 IF profile.context_items # <<>>
                 THEN Join(<<",", " ">>, profile.context_items)
                 ELSE <<"NOCTX">>
         IN [role |-> "system",
             content |-> <<"HEAD">> \o profile.name \o <<"MID">>
                         \o context_str \o <<"TAIL">>]

\* slip: the window counted in turns, not in exchanges
AppendUserMutant(hist, user_input, maxex) ==
    SliceLast(Append(hist, UserTurn(user_input)), maxex)

\* get_response, lines 128-129: append the user turn, keep the last
\* max_exchanges * 2 entries
AppendUser(hist, user_input, maxex) ==
    SliceLast(Append(hist, UserTurn(user_input)), maxex * 2)

\* slip: the request built from the history without its newest turn
MessagesToSendMutant(profile, hist) ==
    <<CreateSystemPrompt(profile)>> \o DropLast(hist)

\* get_response, lines 131-132
MessagesToSend(profile, hist) == <<CreateSystemPrompt(profile)>> \o hist

\* get_response, lines 145-149: the text of the ConnectionError
\*   ERRHEAD "Ошибка при обращении к модели: "
\*   ERRMID  "\nУбедитесь, что Ollama запущен (docker start ollama) и модель "
\*   ERRTAIL " загружена."
ErrorMsg(e, mdl) == <<"ERRHEAD">> \o e \o <<"ERRMID", mdl, "ERRTAIL">>

\* ------------------------------------------------------- run_chat_loop tests
\* slip: the line compared without lower()
IsQuitMutant(line) == line \in { <<"q">>, <<"q", "u", "i", "t">> }

\* user_text.lower() in ["q", "quit"]
IsQuit(line) == Lower(line) \in { <<"q">>, <<"q", "u", "i", "t">> }

\* slip: the line compared without strip()
IsHistoryCommandMutant(line) == line = HistoryCommand

\* user_text.strip() == "/history"
IsHistoryCommand(line) == Strip(line) = HistoryCommand

\* slip: the line tested without strip()
IsBlankMutant(line) == line = <<>>

\* not user_text.strip()
IsBlank(line) == Strip(line) = <<>>

\* ------------------------------------------------------------------ actions
\* ChatBot.__init__; run_chat_loop is about to call input()
Init ==
    /\ model = "llama3:8b"
    /\ max_exchanges \in 0..MaxMaxExchanges
    /\ user_profile = EmptyProfile
    /\ history = <<>>
    /\ pc = "Idle"
    /\ user_text = <<>>
    /\ messages_to_send = <<>>
    /\ output = NoOutput
    /\ calls = 0
    /\ profile_args = <<>>
    /\ pre_history = <<>>
    /\ exchanges_so_far = 0
    /\ only_successes = TRUE
    /\ after_clear = FALSE
    /\ last_op = "init"

\* ChatBot.set_user_profile(name, context_info_str)
SetUserProfile(name, context_info_str) ==
    /\ pc = "Idle"
    /\ user_profile' = ParseProfile(name, context_info_str)
    /\ profile_args' = <<name, context_info_str>>
    /\ last_op' = "set_user_profile"
    /\ UNCHANGED <<model, max_exchanges, history, pc, user_text,
                   messages_to_send, output, calls, ghost>>

\* slip: clear_history resetting the profile as well
ClearHistoryMutant ==
    /\ pc = "Idle"
    /\ history' = <<>>
    /\ user_profile' = EmptyProfile
    /\ only_successes' = FALSE
    /\ after_clear' = TRUE
    /\ last_op' = "clear_history"
    /\ UNCHANGED <<model, max_exchanges, pc, user_text, messages_to_send,
                   output, calls, profile_args, pre_history,
                   exchanges_so_far>>

\* ChatBot.clear_history()
ClearHistory ==
    /\ pc = "Idle"
    /\ history' = <<>>
    /\ only_successes' = FALSE
    /\ after_clear' = TRUE
    /\ last_op' = "clear_history"
    /\ UNCHANGED <<model, max_exchanges, user_profile, pc, user_text,
                   messages_to_send, output, calls, profile_args,
                   pre_history, exchanges_so_far>>

\* run_chat_loop, lines 61-64: a quit command ends the loop
ReadQuit(line) ==
    /\ pc = "Idle"
    /\ IsQuit(line)
    /\ user_text' = line
    /\ pc' = "Done"
    /\ last_op' = "quit"
    /\ UNCHANGED <<bot, messages_to_send, output, calls, profile_args,
                   ghost>>

\* run_chat_loop, lines 66-68 and show_history
ReadHistoryCommand(line) ==
    /\ pc = "Idle"
    /\ ~IsQuit(line)
    /\ IsHistoryCommand(line)
    /\ user_text' = line
    /\ output' = [kind |-> IF history = <<>> THEN "empty_history"
                           ELSE "history",
                  text |-> <<>>]
    /\ last_op' = "show_history"
    /\ UNCHANGED <<bot, pc, messages_to_send, calls, profile_args, ghost>>

\* run_chat_loop, lines 70-71: a blank line is skipped
ReadBlank(line) ==
    /\ pc = "Idle"
    /\ ~IsQuit(line)
    /\ ~IsHistoryCommand(line)
    /\ IsBlank(line)
    /\ user_text' = line
    /\ last_op' = "blank"
    /\ UNCHANGED <<bot, pc, messages_to_send, output, calls, profile_args,
                   ghost>>

\* run_chat_loop, line 74, and get_response up to the blocking call
\* (lines 128-138)
GetResponseCall(line) ==
    /\ pc = "Idle"
    /\ calls < MaxCalls
    /\ ~IsQuit(line)
    /\ ~IsHistoryCommand(line)
    /\ ~IsBlank(line)
    /\ user_text' = line
    /\ pre_history' = history
    /\ history' = AppendUser(history, line, max_exchanges)
    /\ messages_to_send' = MessagesToSend(user_profile, history')
    /\ calls' = calls + 1
    /\ pc' = "AwaitingCompletion"
    /\ last_op' = "get_response"
    /\ UNCHANGED <<model, max_exchanges, user_profile, output,
                   profile_args, exchanges_so_far, only_successes,
                   after_clear>>

\* get_response, lines 139-141, and run_chat_loop, line 75
CompletionReturns(answer) ==
    /\ pc = "AwaitingCompletion"
    /\ history' = Append(history, AssistantTurn(answer))
    /\ output' = [kind |-> "answer", text |-> answer]
    /\ exchanges_so_far' = exchanges_so_far + 1
    /\ pc' = "Idle"
    /\ after_clear' = FALSE
    /\ last_op' = "success"
    /\ UNCHANGED <<model, max_exchanges, user_profile, user_text,
                   messages_to_send, calls, profile_args, pre_history,
                   only_successes>>

\* slip: the ConnectionError left uncaught, ending the process
CatchConnectionErrorMutant(msg) ==
    [pc |-> "Crashed", output |-> NoOutput]

\* what run_chat_loop does with the ConnectionError of get_response
\* (lines 76-77): print it and go on with the loop
CatchConnectionError(msg) ==
    [pc |-> "Idle", output |-> [kind |-> "error", text |-> msg]]

\* get_response, lines 143-150, and run_chat_loop, lines 76-77
CompletionRaises(e) ==
    /\ pc = "AwaitingCompletion"
    /\ history' = DropLast(history)
    /\ LET caught == CatchConnectionError(ErrorMsg(e, model))
       IN /\ pc' = caught.pc
          /\ output' = caught.output
    /\ only_successes' = FALSE
    /\ after_clear' = FALSE
    /\ last_op' = "failure"
    /\ UNCHANGED <<model, max_exchanges, user_profile, user_text,
                   messages_to_send, calls, profile_args, pre_history,
                   exchanges_so_far>>

\* slip: KeyboardInterrupt and EOFError left uncaught
InterruptMutant ==
    /\ pc \in {"Idle", "AwaitingCompletion"}
    /\ pc' = "Crashed"
    /\ only_successes' = FALSE
    /\ last_op' = "interrupt"
    /\ UNCHANGED <<bot, user_text, messages_to_send, output, calls,
                   profile_args, pre_history, exchanges_so_far, after_clear>>

\* run_chat_loop, lines 81-82: KeyboardInterrupt or EOFError, raised by
\* input() or while the completion call blocks, ends the loop
Interrupt ==
    /\ pc \in {"Idle", "AwaitingCompletion"}
    /\ pc' = "Done"
    /\ output' = [kind |-> "bye", text |-> <<>>]
    /\ only_successes' = FALSE
    /\ last_op' = "interrupt"
    /\ UNCHANGED <<bot, user_text, messages_to_send, calls, profile_args,
                   pre_history, exchanges_so_far, after_clear>>

Next ==
    \/ \E name \in Names, ctx \in ContextStrings : SetUserProfile(name, ctx)
    \/ ClearHistory
    \/ \E line \in Lines : ReadQuit(line)
    \/ \E line \in Lines : ReadHistoryCommand(line)
    \/ \E line \in Lines : ReadBlank(line)
    \/ \E line \in Lines : GetResponseCall(line)
    \/ \E answer \in Answers : CompletionReturns(answer)
    \/ \E e \in Errors : CompletionRaises(e)
    \/ Interrupt

Spec == Init /\ [][Next]_vars

\* set_user_profile on every context string of at most MaxCtxLen characters,
\* any number of times, with or without one turn stored before
NextProfile ==
    \/ \E name \in ProfileNames, ctx \in BoundedContextStrings :
            SetUserProfile(name, ctx)
    \/ calls = 0 /\ profile_args = <<>> /\ GetResponseCall(<<"h", "i">>)
    \/ \E answer \in Answers : CompletionReturns(answer)

SpecProfile == Init /\ [][NextProfile]_vars

\* ------------------------------------------------------------------- types
TypeOK ==
    /\ max_exchanges \in 0..MaxMaxExchanges
    /\ pc \in {"Idle", "AwaitingCompletion", "Done"}
    /\ calls \in 0..MaxCalls
    /\ exchanges_so_far \in 0..calls
    /\ user_text \in Lines

\* ------------------------------------------------------------------ claims
Min(a, b) == IF a <= b THEN a ELSE b

\* the operations that handle one line read by input()
LineOps == {"quit", "show_history", "blank", "get_response"}

\* every character of s is whitespace (the empty string included)
WhitespaceOnly(s) == \A i \in 1..Len(s) : s[i] \in Whitespace

\* C1: once a failed get_response has returned its error, the history is
\* exactly the history H the call started from.
C1_FailureIsolation ==
    last_op = "failure" => history = pre_history

\* C2 as stated: in a run of successful exchanges only, right after the user
\* append and truncation the history length is 2 * min(exchanges_so_far,
\* max_exchanges), exchanges_so_far counting the current exchange or not;
\* taken where the window holds at least one exchange.
C2_AsStated ==
    (pc = "AwaitingCompletion" /\ only_successes /\ max_exchanges >= 1) =>
        \/ Len(history) = 2 * Min(exchanges_so_far, max_exchanges)
        \/ Len(history) = 2 * Min(exchanges_so_far + 1, max_exchanges)

\* C2 amended: with max_exchanges >= 1, in a run of successful exchanges
\* only, right after the user append and truncation the history length is
\* min(2 * completed exchanges + 1, 2 * max_exchanges).
C2_TruncationPointLength ==
    (pc = "AwaitingCompletion" /\ only_successes /\ max_exchanges >= 1) =>
        Len(history) = Min(2 * exchanges_so_far + 1, 2 * max_exchanges)

\* a truncation point at which the window is full and turns were dropped
C2_Witness ==
    /\ pc = "AwaitingCompletion"
    /\ only_successes
    /\ max_exchanges >= 1
    /\ exchanges_so_far >= max_exchanges
    /\ Len(history) = 2 * max_exchanges
    /\ Len(pre_history) + 1 > Len(history)

\* C3: in every reachable state the stored history has at most
\* 2 * max_exchanges turns.
C3_HistoryBound ==
    Len(history) <= 2 * max_exchanges

\* C4: with max_exchanges = 0 the history is empty right after the user
\* append and truncation of any turn.
C4_ZeroWindowEvicts ==
    (pc = "AwaitingCompletion" /\ max_exchanges = 0) => Len(history) = 0

\* C5: with max_exchanges = 0 the list handed to the completion endpoint is
\* the system turn alone.
C5_ZeroWindowSendsSystemOnly ==
    (pc = "AwaitingCompletion" /\ max_exchanges = 0) =>
        messages_to_send = <<CreateSystemPrompt(user_profile)>>

\* C6 as stated: a get_response goes Idle -> AwaitingCompletion -> Idle, and
\* when the completion returns the history is exactly 2 turns longer than the
\* history the call started from.
C6_AsStated ==
    [][ /\ (last_op' = "get_response" =>
                pc = "Idle" /\ pc' = "AwaitingCompletion")
        /\ (pc = "AwaitingCompletion" /\ last_op' \in {"success", "failure"} =>
                pc' = "Idle")
        /\ (pc = "AwaitingCompletion" /\ last_op' = "success" =>
                Len(history') = Len(pre_history) + 2) ]_vars

\* C6 amended: a get_response goes Idle -> AwaitingCompletion -> Idle when
\* the completion returns or fails, and when it returns the history is at
\* most 2 turns longer than the history H the call started from, exactly 2
\* longer when H holds fewer than 2 * max_exchanges turns.
C6_TurnCycle ==
    [][ /\ (last_op' = "get_response" =>
                pc = "Idle" /\ pc' = "AwaitingCompletion")
        /\ (pc = "AwaitingCompletion" /\ last_op' \in {"success", "failure"} =>
                pc' = "Idle")
        /\ (pc = "AwaitingCompletion" /\ last_op' = "success" =>
                /\ Len(history') <= Len(pre_history) + 2
                /\ (Len(pre_history) < 2 * max_exchanges =>
                        Len(history') = Len(pre_history) + 2)) ]_vars

\* a successful turn on a non-empty history that grew it by 2
C6_Witness ==
    /\ pc = "Idle"
    /\ last_op = "success"
    /\ pre_history # <<>>
    /\ Len(pre_history) < 2 * max_exchanges
    /\ Len(history) = Len(pre_history) + 2

C8_FailureRecoverable ==
    /\ pc \in {"Idle", "AwaitingCompletion", "Done"}
    /\ last_op = "failure" =>
          /\ pc = "Idle"
          /\ output = [kind |-> "error",
                       text |-> <<"ERRHEAD">> \o <<"r", "e", "f", "u", "s", "e", "d">>
                                \o <<"ERRMID", "llama3:8b", "ERRTAIL">>]
          /\ (calls < MaxCalls =>
                ENABLED (\E line \in Lines : GetResponseCall(line)))

\* a turn succeeded and was recorded after an earlier turn had failed
C8_Witness ==
    /\ pc = "Idle"
    /\ last_op = "success"
    /\ exchanges_so_far < calls
    /\ history # <<>>
    /\ history[Len(history)].role = "assistant"

\* C9: the stored history never holds a system turn; the list sent to the
\* endpoint starts with the system turn built from the current profile and
\* holds no other system turn.
C9_NoStoredSystemTurn ==
    /\ \A i \in 1..Len(history) : history[i].role \in {"user", "assistant"}
    /\ pc = "AwaitingCompletion" =>
          /\ messages_to_send[1] = CreateSystemPrompt(user_profile)
          /\ \A i \in 2..Len(messages_to_send) :
                messages_to_send[i].role # "system"

\* a request sent with the system turn of a profile, on top of stored turns
C9_Witness ==
    /\ pc = "AwaitingCompletion"
    /\ Len(history) >= 3
    /\ DOMAIN user_profile # {}
    /\ messages_to_send[1].content =
          <<"HEAD", "A", "n", "a", "MID", "x", ",", " ", "y", "TAIL">>

\* C10: clear_history leaves the history empty and profile, max_exchanges
\* and model as they were; the turn after it sends the system turn and the
\* new user turn only.
C10_Clear ==
    /\ [][ last_op' = "clear_history" =>
              /\ history' = <<>>
              /\ user_profile' = user_profile
              /\ max_exchanges' = max_exchanges
              /\ model' = model ]_vars
    /\ [](pc = "AwaitingCompletion" /\ after_clear =>
              messages_to_send =
                  << CreateSystemPrompt(user_profile),
                     [role |-> "user", content |-> user_text] >>)

\* the first request after a clear that emptied a stored exchange, with a
\* profile set
C10_Witness ==
    /\ pc = "AwaitingCompletion"
    /\ after_clear
    /\ exchanges_so_far >= 1
    /\ DOMAIN user_profile # {}
    /\ Len(messages_to_send) = 2

\* greatest and least element of a non-empty set of integers
MaxOf(S) == CHOOSE m \in S : \A x \in S : x <= m
MinOf(S) == CHOOSE m \in S : \A x \in S : m <= x

\* the pieces of s between its commas, by position: piece j lies between the
\* (j-1)-th and the j-th boundary, the boundaries being 0, the positions of
\* the commas and Len(s) + 1
CommaPieces(s) ==
    LET bounds == {0, Len(s) + 1} \cup {i \in 1..Len(s) : s[i] = ","}
        nth(k) == CHOOSE b \in bounds : Cardinality({c \in bounds : c < b}) = k
    IN [j \in 1..(Cardinality(bounds) - 1) |->
            SubSeq(s, nth(j - 1) + 1, nth(j) - 1)]

\* p without the whitespace around it
Trimmed(p) ==
    LET solid == {i \in 1..Len(p) : p[i] \notin Whitespace}
    IN IF solid = {} THEN <<>> ELSE SubSeq(p, MinOf(solid), MaxOf(solid))

\* the context items the claim describes: the comma-separated pieces,
\* trimmed, the empty ones dropped, order and duplicates kept
ExpectedItems(s) ==
    LET pieces == CommaPieces(s)
        trimmed == [j \in 1..Len(pieces) |-> Trimmed(pieces[j])]
    IN SelectSeq(trimmed, LAMBDA p : p # <<>>)

LastN(lst, n) ==
    IF n >= Len(lst) THEN lst ELSE SubSeq(lst, Len(lst) - n + 1, Len(lst))

\* C13: a /history line changes neither history nor profile nor
\* configuration, makes no completion call and leaves the loop where it was.
C13_HistoryCommandReadOnly ==
    [][ (last_op' \in LineOps /\ Trimmed(user_text') = HistoryCommand) =>
            /\ history' = history
            /\ user_profile' = user_profile
            /\ max_exchanges' = max_exchanges
            /\ model' = model
            /\ calls' = calls
            /\ messages_to_send' = messages_to_send
            /\ pc' = pc ]_vars

\* the stored turns were displayed on a padded /history line, a profile set
C13_Witness ==
    /\ last_op = "show_history"
    /\ user_text = <<" ">> \o HistoryCommand
    /\ output.kind = "history"
    /\ Len(history) >= 2
    /\ DOMAIN user_profile # {}

\* what the loop is to do with a line
LineClass(line) ==
    IF Lower(line) \in { <<"q">>, <<"q", "u", "i", "t">> } THEN "quit"
    ELSE IF Trimmed(line) = HistoryCommand THEN "show_history"
    ELSE IF WhitespaceOnly(line) THEN "blank"
    ELSE "get_response"

\* C14: each line read is handled as the one of quit, /history, blank and
\* forwarded that it is; a forwarded line makes one completion call, and no
\* other step (a failure included) makes any.
C14_LineDispatch ==
    [][ /\ (last_op' \in LineOps => last_op' = LineClass(user_text'))
        /\ (last_op' = "get_response" =>
                calls' = calls + 1 /\ pc' = "AwaitingCompletion")
        /\ (last_op' # "get_response" => calls' = calls) ]_vars

\* two lines were forwarded, the first call failed, and two calls were made
C14_Witness ==
    /\ last_op = "get_response"
    /\ calls = 2
    /\ exchanges_so_far = 0
    /\ output.kind = "error"
    /\ pc = "AwaitingCompletion"

\* C15: a quit command, end-of-input or an interrupt ends the loop without
\* an error escaping, and once it has ended no completion call is made and
\* the history does not change.
C15_CleanTermination ==
    /\ [](pc \in {"Idle", "AwaitingCompletion", "Done"})
    /\ [](last_op \in {"quit", "interrupt"} => pc = "Done")
    /\ [][ pc = "Done" =>
              pc' = "Done" /\ history' = history /\ calls' = calls ]_vars

\* the loop ended on an interrupt raised while the completion call blocked
C15_Witness ==
    /\ pc = "Done"
    /\ last_op = "interrupt"
    /\ output.kind = "bye"
    /\ calls >= 1
    /\ Len(history) = Len(pre_history) + 1
    /\ history[Len(history)].role = "user"

\* C16: with max_exchanges >= 1 the list handed to the endpoint is the system
\* turn of the current profile followed by the stored history, which is the
\* last 2 * max_exchanges turns of the old history plus the new user turn,
\* and its last element is the user turn with the current input.
C16_RequestContents ==
    (pc = "AwaitingCompletion" /\ max_exchanges >= 1) =>
        /\ messages_to_send = <<CreateSystemPrompt(user_profile)>> \o history
        /\ history = LastN(Append(pre_history,
                                  [role |-> "user", content |-> user_text]),
                           2 * max_exchanges)
        /\ messages_to_send[Len(messages_to_send)] =
              [role |-> "user", content |-> user_text]

\* a request whose history lost its oldest turn to the truncation, sent under
\* a profile
C16_Witness ==
    /\ pc = "AwaitingCompletion"
    /\ max_exchanges >= 1
    /\ Len(history) = 2 * max_exchanges
    /\ Len(pre_history) >= Len(history)
    /\ DOMAIN user_profile # {}
    /\ Len(messages_to_send) = Len(history) + 1

\* C17: with max_exchanges >= 1 the history never holds more than
\* 2 * max_exchanges + 1 turns; it comes to hold more than 2 * max_exchanges
\* only by the append of an answer, and holds at most 2 * max_exchanges when
\* the completion call is made.
C17_WindowPlusOne ==
    /\ [](max_exchanges >= 1 =>
            /\ Len(history) <= 2 * max_exchanges + 1
            /\ (pc = "AwaitingCompletion" =>
                    Len(history) <= 2 * max_exchanges)
            /\ (Len(history) > 2 * max_exchanges =>
                    history[Len(history)].role = "assistant"))
    /\ [][ (/\ max_exchanges >= 1
            /\ Len(history) <= 2 * max_exchanges
            /\ Len(history') > 2 * max_exchanges) =>
                last_op' = "success" ]_vars

\* a request made on a history of 2 * max_exchanges + 1 turns, cut back to
\* 2 * max_exchanges by the user append
C17_Witness ==
    /\ pc = "AwaitingCompletion"
    /\ max_exchanges >= 1
    /\ Len(pre_history) = 2 * max_exchanges + 1
    /\ Len(history) = 2 * max_exchanges

\* C18: between turns a non-empty history starts with a user turn, every
\* stored assistant turn directly follows a user turn, and the turns sent
\* after the system turn start with a user turn.
C18_WholeExchanges ==
    /\ (pc = "Idle" /\ history # <<>>) =>
          /\ history[1].role = "user"
          /\ \A i \in 1..Len(history) :
                history[i].role = "assistant" =>
                    i > 1 /\ history[i - 1].role = "user"
    /\ (pc = "AwaitingCompletion" /\ Len(messages_to_send) >= 2) =>
          messages_to_send[2].role = "user"

\* C19: with max_exchanges >= 1, after a failed get_response on a history H
\* of k turns the history is the last min(k, 2 * max_exchanges - 1) turns of
\* H, and the printed error is no turn of it.
C19_FailureLeavesSuffix ==
    (last_op = "failure" /\ max_exchanges >= 1) =>
        /\ history = LastN(pre_history,
                           Min(Len(pre_history), 2 * max_exchanges - 1))
        /\ \A i \in 1..Len(history) : history[i].content # output.text

\* a failed turn on a full window: the oldest turn of H is gone
C19_Witness ==
    /\ last_op = "failure"
    /\ max_exchanges >= 1
    /\ Len(pre_history) >= 2 * max_exchanges
    /\ Len(history) = 2 * max_exchanges - 1
    /\ history # pre_history

\* C20: with max_exchanges >= 1, between turns the history is empty or ends
\* with an assistant turn, and no two adjacent turns have the same role.
C20_Alternation ==
    (pc = "Idle" /\ max_exchanges >= 1) =>
        /\ (history = <<>> \/ history[Len(history)].role = "assistant")
        /\ \A i \in 1..(Len(history) - 1) :
              history[i].role # history[i + 1].role

\* between turns, after a failure on a full window, a history that starts
\* and ends with an assistant turn
C20_Witness ==
    /\ pc = "Idle"
    /\ max_exchanges >= 1
    /\ last_op = "failure"
    /\ Len(history) >= 3
    /\ history[1].role = "assistant"
    /\ history[Len(history)].role = "assistant"

====
